---------------------------- MODULE Spec2Model ----------------------------
(***************************************************************************)
(* flaggly: the definition store (src/src/storage.ts), the request schemas *)
(* (src/src/schema.ts) and the evaluation engine (src/src/routes/api.ts).  *)
(*                                                                         *)
(* Strings whose characters matter (app ids, env ids, KV keys) are         *)
(* sequences of tokens, so that the template `v1:${app}:${env}` is a       *)
(* concatenation and not a pair.  An optional JSON property is the empty   *)
(* set when absent and a singleton when present.                           *)
(***************************************************************************)
EXTENDS Integers, Sequences, FiniteSets, TLC

VARIABLES
    kv,       \* the KV namespace: key -> stored tenant document
    ret,      \* the [data, error] pair the last store call resolved to
    call,     \* the last store call and its arguments
    pre,      \* the KV namespace as it was when the last call started
    puts,     \* the keys the last call wrote with kv.put, in order
    nops,     \* number of calls made so far
    pc,       \* concurrent runs: where each in-flight mutation stands
    req,      \* concurrent runs: the mutation each task executes
    snap,     \* concurrent runs: the document(s) each task has read
    base,     \* concurrent runs: the namespace before either task started
    jexlNow,  \* the function registered under the name "now" in jexl
    clock,    \* the wall clock, Date.now()
    decided,  \* the results evaluateFlag has returned, per argument tuple
    lastEval, \* the last evaluateFlag call and its result
    args,     \* single applications: the function applied and its arguments
    out,      \* single applications: what the function returned, in order
    sdk,      \* the client: this.id, this.user and the #flags store
    net       \* the client's requests to /api/eval, in the order they started

vars == <<kv, ret, call, pre, puts, nops, pc, req, snap, base,
          jexlNow, clock, decided, lastEval, args, out, sdk, net>>

storeVars == <<kv, ret, call, pre, puts, nops>>
concVars == <<pc, req, snap, base>>
evalVars == <<jexlNow, clock, decided, lastEval, args, out>>
sdkVars == <<sdk, net>>

-----------------------------------------------------------------------------
(* Optional values, null, and maps with string keys.                       *)

Undefined == {}
Null == {}
Def(v) == {v}
The(o) == CHOOSE v \in o : TRUE

EmptyMap == [k \in {} |-> {}]
MapPut(m, k, v) == [x \in (DOMAIN m) \cup {k} |-> IF x = k THEN v ELSE m[x]]
MapDel(m, k) == [x \in (DOMAIN m) \ {k} |-> m[x]]

\* flagSegments.filter((seg) => seg !== id)
FilterNot(s, id) ==
    LET F[i \in 0..Len(s)] ==
            IF i = 0 THEN <<>>
            ELSE IF s[i] # id THEN Append(F[i - 1], s[i]) ELSE F[i - 1]
    IN F[Len(s)]

Range(s) == {s[i] : i \in DOMAIN s}

-----------------------------------------------------------------------------
(* Bounds and the finite universe of ids.                                  *)

MaxOps == 2

Apps == {<<"shop">>, <<"shop", ":", "eu">>}
Envs == {<<"prod">>, <<"eu", ":", "prod">>}
FlagIds == {"f1", "f2"}
SegIds == {"a", "b", "c"}
SegRules == {"user.beta == true", "user.premium == true"}
FlagTypes == {"boolean", "payload", "variant"}

TwoVariations ==
    << [id |-> "A", weight |-> 50, payload |-> Undefined],
       [id |-> "B", weight |-> 50, payload |-> Undefined] >>

-----------------------------------------------------------------------------
(* src/src/schema.ts: the request schemas.  A schema applied to a body     *)
(* gives [success, data]; object schemas keep only their own keys and fill *)
(* the declared defaults.                                                  *)

WithDefault(o, d) == IF o = Undefined THEN d ELSE The(o)

flagRule(r) == r # ""

featureFlagVariationSchema(v) == v.id # "" /\ v.weight \in 0..100

rolloutStep(step) ==
    /\ step.percentage # Undefined => The(step.percentage) \in 0..100
    /\ step.percentage # Undefined \/ step.segment # Undefined

baseFeatureFlag(x) ==
    /\ x.id # ""
    /\ \A i \in DOMAIN WithDefault(x.rules, <<>>) : flagRule(The(x.rules)[i])
    /\ WithDefault(x.rollout, 100) \in 0..100
    /\ \A i \in DOMAIN WithDefault(x.rollouts, <<>>) :
           rolloutStep(The(x.rollouts)[i])

variationsOK(o) ==
    /\ o # Undefined
    /\ Len(The(o)) >= 2
    /\ \A i \in DOMAIN The(o) : featureFlagVariationSchema(The(o)[i])

\* The object of the union member chosen by `type`: its own keys only.
inputFeatureFlag(x) ==
    [ id         |-> x.id,
      type       |-> x.type,
      enabled    |-> WithDefault(x.enabled, FALSE),
      rules      |-> WithDefault(x.rules, <<>>),
      segments   |-> WithDefault(x.segments, <<>>),
      rollout    |-> WithDefault(x.rollout, 100),
      rollouts   |-> WithDefault(x.rollouts, <<>>),
      payload    |-> IF x.type = "payload" THEN x.payload ELSE Undefined,
      variations |-> IF x.type = "variant" THEN x.variations ELSE Undefined ]

inputFeatureFlagSchema(x) ==
    LET d == inputFeatureFlag(x)
        member ==
            /\ baseFeatureFlag(x)
            /\ x.type \in FlagTypes
            /\ x.type = "variant" => variationsOK(x.variations)
        refined ==
            /\ ~(d.type = "boolean" /\
                 (d.variations # Undefined \/ d.payload # Undefined))
            /\ ~(d.type = "payload" /\ d.payload = Undefined)
            /\ ~(d.type = "variant" /\ d.variations = Undefined)
    IN [success |-> member /\ refined, data |-> d]

updateableFeatureFlagSchema(x) ==
    LET member ==
            /\ x.rules # Undefined =>
                   \A i \in DOMAIN The(x.rules) : flagRule(The(x.rules)[i])
            /\ x.rollout # Undefined => The(x.rollout) \in 0..100
            /\ x.rollouts # Undefined =>
                   \A i \in DOMAIN The(x.rollouts) :
                       rolloutStep(The(x.rollouts)[i])
            /\ x.type # Undefined => The(x.type) \in FlagTypes
            /\ x.variations # Undefined => variationsOK(x.variations)
        refined ==
            /\ ~(x.type = Def("boolean") /\
                 (x.variations # Undefined \/ x.payload # Undefined))
            /\ ~(x.type = Def("payload") /\ x.payload = Undefined)
            /\ ~(x.type = Def("variant") /\ x.variations = Undefined)
    IN [success |-> member /\ refined, data |-> x]

\* routes/admin.ts, PATCH /flags/:id: an update without any key is refused.
updateHasFields(x) == \E k \in DOMAIN x : x[k] # Undefined

-----------------------------------------------------------------------------
(* src/src/storage.ts: AppKV.  `self` is an instance, [app, env].  A       *)
(* private method gives [store, puts, value, thrown]; a public method      *)
(* gives [store, puts, ret].                                               *)

EmptyDoc == [flags |-> EmptyMap, segments |-> EmptyMap]

cacheKeys_all(self, env) ==
    <<"v1", ":">> \o self.app \o <<":">> \o WithDefault(env, self.env)

priv_getData(store, self, env) ==
    LET key == cacheKeys_all(self, env)
    IN IF key \in DOMAIN store THEN store[key] ELSE EmptyDoc

priv_saveData(store, self, input, env) ==
    MapPut(store, cacheKeys_all(self, env), input)

FlagglyError(code) == [flaggly |-> TRUE, code |-> code]

Throw(store, err) ==
    [store |-> store, puts |-> <<>>, value |-> Null, thrown |-> Def(err)]

Saved(store, self, data, env) ==
    [store  |-> priv_saveData(store, self, data, env),
     puts   |-> <<cacheKeys_all(self, env)>>,
     value  |-> Def(data),
     thrown |-> Null]

tryPromise(p, error) ==
    [store |-> p.store,
     puts  |-> p.puts,
     ret   |-> IF p.thrown = Null
               THEN [data |-> p.value, error |-> Null]
               ELSE IF The(p.thrown).flaggly
               THEN [data |-> Null, error |-> Def(The(p.thrown).code)]
               ELSE [data |-> Null, error |-> Def(error)]]

\* Mutant: `some` for `every`.
checkSegments_Some(segments, input) ==
    \/ Len(input) = 0
    \/ \E i \in DOMAIN input : input[i] \in DOMAIN segments

\* TRUE: the check passes; FALSE: it throws INVALID_BODY.
checkSegments(segments, input) ==
    \/ Len(input) = 0
    \/ \A i \in DOMAIN input : input[i] \in DOMAIN segments

\* TRUE: the check passes; FALSE: it throws NOT_FOUND.
checkFlag(id, data) == id \in DOMAIN data.flags

priv_putFlag(store, self, flag) ==
    LET data == priv_getData(store, self, Undefined)
    IN IF ~checkSegments(data.segments, flag.segments)
       THEN Throw(store, FlagglyError("INVALID_BODY"))
       ELSE Saved(store, self,
                  [data EXCEPT !.flags = MapPut(@, flag.id, flag)],
                  Undefined)

putFlag(store, self, flag) ==
    tryPromise(priv_putFlag(store, self, flag), "PUT_FAILED")

\* Object.assign(flag, update): every key the update holds replaces the flag's.
ObjectAssign(flag, update) ==
    [ id         |-> flag.id,
      type       |-> WithDefault(update.type, flag.type),
      enabled    |-> WithDefault(update.enabled, flag.enabled),
      rules      |-> WithDefault(update.rules, flag.rules),
      segments   |-> WithDefault(update.segments, flag.segments),
      rollout    |-> WithDefault(update.rollout, flag.rollout),
      rollouts   |-> WithDefault(update.rollouts, flag.rollouts),
      payload    |-> IF update.payload = Undefined
                     THEN flag.payload ELSE update.payload,
      variations |-> IF update.variations = Undefined
                     THEN flag.variations ELSE update.variations ]

priv_updateFlag(store, self, id, update) ==
    LET data == priv_getData(store, self, Undefined)
    IN IF ~checkSegments(data.segments, WithDefault(update.segments, <<>>))
       THEN Throw(store, FlagglyError("INVALID_BODY"))
       ELSE IF ~checkFlag(id, data)
       THEN Throw(store, FlagglyError("NOT_FOUND"))
       ELSE Saved(store, self,
                  [data EXCEPT
                      !.flags[id] = ObjectAssign(data.flags[id], update)],
                  Undefined)

updateFlag(store, self, id, update) ==
    tryPromise(priv_updateFlag(store, self, id, update), "UPDATE_FAILED")

\* Mutant: the flag is not looked up before it is removed.
priv_deleteFlag_NoCheck(store, self, id) ==
    LET data == priv_getData(store, self, Undefined)
    IN Saved(store, self, [data EXCEPT !.flags = MapDel(@, id)], Undefined)

priv_deleteFlag(store, self, id) ==
    LET data == priv_getData(store, self, Undefined)
    IN IF ~checkFlag(id, data)
       THEN Throw(store, FlagglyError("NOT_FOUND"))
       ELSE Saved(store, self,
                  [data EXCEPT !.flags = MapDel(@, id)], Undefined)

deleteFlag(store, self, id) ==
    tryPromise(priv_deleteFlag(store, self, id), "DELETE_FAILED")

priv_putSegment(store, self, id, rule) ==
    LET data == priv_getData(store, self, Undefined)
    IN Saved(store, self,
             [data EXCEPT !.segments = MapPut(@, id, rule)], Undefined)

putSegment(store, self, id, rule) ==
    tryPromise(priv_putSegment(store, self, id, rule), "PUT_FAILED")

\* Mutant: the delete does not cascade into the flags.
stripSegment_NoCascade(flag, id) == flag

\* The delete cascading into the rollout steps as well.
stripSegment_Steps(flag, id) ==
    [flag EXCEPT !.segments = FilterNot(flag.segments, id),
                 !.rollouts = SelectSeq(@, LAMBDA step :
                                               step.segment # Def(id))]

\* The loop body of #deleteSegment for one flag.
stripSegment(flag, id) ==
    LET flagSegments == flag.segments
        hasDeletedSegment ==
            Len(flagSegments) > 0 /\ \E i \in DOMAIN flagSegments :
                                         flagSegments[i] = id
    IN IF hasDeletedSegment
       THEN [flag EXCEPT !.segments = FilterNot(flagSegments, id)]
       ELSE flag

\* Mutant: the flags are stripped but the segment itself stays.
priv_deleteSegment_KeepsKey(store, self, id) ==
    LET data == priv_getData(store, self, Undefined)
    IN IF id \notin DOMAIN data.segments
       THEN Throw(store, FlagglyError("NOT_FOUND"))
       ELSE Saved(store, self,
                  [segments |-> data.segments,
                   flags    |-> [flagId \in DOMAIN data.flags |->
                                    [data.flags[flagId] EXCEPT
                                        !.segments =
                                            SelectSeq(@, LAMBDA x : x # id)]]],
                  Undefined)

priv_deleteSegment(store, self, id) ==
    LET data == priv_getData(store, self, Undefined)
    IN IF id \notin DOMAIN data.segments
       THEN Throw(store, FlagglyError("NOT_FOUND"))
       ELSE Saved(store, self,
                  [segments |-> MapDel(data.segments, id),
                   flags    |-> [flagId \in DOMAIN data.flags |->
                                    stripSegment(data.flags[flagId], id)]],
                  Undefined)

deleteSegment(store, self, id) ==
    tryPromise(priv_deleteSegment(store, self, id), "DELETE_FAILED")

\* Mutant: overwrite is ignored, the source's enabled is always kept.
syncedFlag_Keep(flag, overwrite) == flag

\* What #syncEnv and #syncFlag store for a flag taken from the source.
syncedFlag(flag, overwrite) ==
    IF ~overwrite THEN [flag EXCEPT !.enabled = FALSE] ELSE flag

priv_syncEnv(store, self, input) ==
    LET sourceEnv == priv_getData(store, self,
                                  Def(WithDefault(input.sourceEnv, self.env)))
        targetEnv == priv_getData(store, self, Def(input.targetEnv))
        flags ==
            [flagKey \in DOMAIN targetEnv.flags \cup DOMAIN sourceEnv.flags |->
                IF flagKey \in DOMAIN sourceEnv.flags
                THEN syncedFlag(sourceEnv.flags[flagKey], input.overwrite)
                ELSE targetEnv.flags[flagKey]]
        segments ==
            [segmentKey \in DOMAIN targetEnv.segments
                            \cup DOMAIN sourceEnv.segments |->
                IF segmentKey \in DOMAIN sourceEnv.segments
                THEN sourceEnv.segments[segmentKey]
                ELSE targetEnv.segments[segmentKey]]
    IN Saved(store, self, [flags |-> flags, segments |-> segments],
             Def(input.targetEnv))

syncEnv(store, self, input) ==
    tryPromise(priv_syncEnv(store, self, input), "UPDATE_FAILED")

\* JSON.stringify leaves out a property whose value is undefined.
jsonSegments(m) ==
    [k \in {x \in DOMAIN m : m[x] # Undefined} |-> The(m[k])]

\* Mutant: every segment of the source is copied, as #syncEnv does.
priv_syncFlag_AllSegments(store, self, input) ==
    LET sourceEnv == priv_getData(store, self,
                                  Def(WithDefault(input.sourceEnv, self.env)))
        targetEnv == priv_getData(store, self, Def(input.targetEnv))
    IN IF ~checkFlag(input.id, sourceEnv)
       THEN Throw(store, FlagglyError("NOT_FOUND"))
       ELSE Saved(store, self,
                  [flags    |-> MapPut(targetEnv.flags, input.id,
                                       IF ~input.overwrite
                                       THEN [sourceEnv.flags[input.id]
                                                EXCEPT !.enabled = FALSE]
                                       ELSE sourceEnv.flags[input.id]),
                   segments |->
                       [g \in DOMAIN targetEnv.segments
                              \cup DOMAIN sourceEnv.segments |->
                           IF g \in DOMAIN sourceEnv.segments
                           THEN sourceEnv.segments[g]
                           ELSE targetEnv.segments[g]]],
                  Def(input.targetEnv))

priv_syncFlag(store, self, input) ==
    LET sourceEnv == priv_getData(store, self,
                                  Def(WithDefault(input.sourceEnv, self.env)))
        targetEnv == priv_getData(store, self, Def(input.targetEnv))
        flagKey == input.id
    IN IF ~checkFlag(flagKey, sourceEnv)
       THEN Throw(store, FlagglyError("NOT_FOUND"))
       ELSE
         LET flag == syncedFlag(sourceEnv.flags[flagKey], input.overwrite)
             flagSegments == Range(flag.segments)
             assigned ==
                 [s \in DOMAIN targetEnv.segments \cup flagSegments |->
                     IF s \in flagSegments
                     THEN IF s \in DOMAIN sourceEnv.segments
                          THEN Def(sourceEnv.segments[s]) ELSE Undefined
                     ELSE Def(targetEnv.segments[s])]
         IN Saved(store, self,
                  [flags    |-> MapPut(targetEnv.flags, flagKey, flag),
                   segments |-> jsonSegments(assigned)],
                  Def(input.targetEnv))

syncFlag(store, self, input) ==
    tryPromise(priv_syncFlag(store, self, input), "UPDATE_FAILED")

-----------------------------------------------------------------------------
(* The calls the admin routes make on an AppKV instance, and their inputs. *)

Instances == [app : Apps, env : Envs]

\* PUT /flags bodies: boolean flags over both ids, and one body per type.
BodyCandidates ==
    [id : FlagIds, type : {"boolean"}, enabled : {Undefined, Def(TRUE)},
     segments : {Undefined, Def(<<"a">>), Def(<<"c", "a", "b">>)},
     payload : {Undefined}, variations : {Undefined},
     rules : {Undefined}, rollout : {Undefined}, rollouts : {Undefined}]
    \cup
    [id : {"f1"}, type : FlagTypes, enabled : {Def(TRUE)},
     segments : {Undefined},
     payload : {Undefined, Def("p1")},
     variations : {Undefined, Def(TwoVariations)},
     rules : {Undefined}, rollout : {Undefined}, rollouts : {Undefined}]

FlagInputs ==
    {inputFeatureFlagSchema(b).data :
        b \in {x \in BodyCandidates : inputFeatureFlagSchema(x).success}}

\* PATCH /flags/:id bodies.
UpdateCandidates ==
    [type : {Undefined}, enabled : {Undefined, Def(FALSE)},
     segments : {Undefined, Def(<<>>), Def(<<"b">>)},
     payload : {Undefined}, variations : {Undefined},
     rules : {Undefined}, rollout : {Undefined}, rollouts : {Undefined}]
    \cup
    [type : {Undefined, Def("boolean"), Def("payload")},
     enabled : {Undefined}, segments : {Undefined},
     payload : {Undefined, Def("p1")}, variations : {Undefined},
     rules : {Undefined}, rollout : {Undefined}, rollouts : {Undefined}]

UpdateInputs ==
    {u \in UpdateCandidates :
        updateableFeatureFlagSchema(u).success /\ updateHasFields(u)}

\* POST /sync bodies for an instance: the source is the instance's own env
\* (sourceEnv left out) or another env.
SyncInputs(self) ==
    [sourceEnv : {Undefined} \cup {Def(e) : e \in Envs \ {self.env}},
     targetEnv : Envs,
     overwrite : BOOLEAN]

Exec(store, c) ==
    CASE c.name = "putFlag" -> putFlag(store, c.self, c.flag)
      [] c.name = "updateFlag" -> updateFlag(store, c.self, c.id, c.update)
      [] c.name = "deleteFlag" -> deleteFlag(store, c.self, c.id)
      [] c.name = "putSegment" -> putSegment(store, c.self, c.id, c.rule)
      [] c.name = "deleteSegment" -> deleteSegment(store, c.self, c.id)
      [] c.name = "syncEnv" -> syncEnv(store, c.self, c.input)
      [] c.name = "syncFlag" ->
             syncFlag(store, c.self,
                      [id |-> c.id, sourceEnv |-> c.input.sourceEnv,
                       targetEnv |-> c.input.targetEnv,
                       overwrite |-> c.input.overwrite])

RECURSIVE RunCalls(_, _)
RunCalls(store, calls) ==
    IF calls = <<>> THEN store
    ELSE RunCalls(Exec(store, Head(calls)).store, Tail(calls))

-----------------------------------------------------------------------------
(* Initial namespaces: the empty one, and one an earlier session left.     *)

ShopProd == [app |-> <<"shop">>, env |-> <<"prod">>]
ShopEu == [app |-> <<"shop">>, env |-> <<"eu", ":", "prod">>]

BoolFlag(id, enabled, segments) ==
    [id |-> id, type |-> "boolean", enabled |-> enabled, rules |-> <<>>,
     segments |-> segments, rollout |-> 100, rollouts |-> <<>>,
     payload |-> Undefined, variations |-> Undefined]

\* A rollout step on a segment, started at 1ms.
SegmentStep(id) ==
    [start |-> "1970-01-01T00:00:00.001Z", segment |-> Def(id),
     percentage |-> Undefined]

EarlierSession ==
    << [name |-> "putSegment", self |-> ShopProd, id |-> "a",
        rule |-> "user.beta == true"],
       [name |-> "putSegment", self |-> ShopProd, id |-> "b",
        rule |-> "user.premium == true"],
       [name |-> "putSegment", self |-> ShopProd, id |-> "c",
        rule |-> "user.beta == true"],
       [name |-> "putFlag", self |-> ShopProd,
        flag |-> [BoolFlag("f1", TRUE, <<"c", "a", "b">>) EXCEPT
                     !.rollouts = <<SegmentStep("b")>>]],
       [name |-> "putFlag", self |-> ShopProd,
        flag |-> [BoolFlag("f2", TRUE, <<"b">>) EXCEPT
                     !.type = "payload", !.payload = Def("p1"),
                     !.rollouts = <<SegmentStep("a")>>]],
       [name |-> "putSegment", self |-> ShopEu, id |-> "a",
        rule |-> "user.premium == true"],
       [name |-> "putFlag", self |-> ShopEu,
        flag |-> BoolFlag("f2", TRUE, <<"a">>)] >>

EmptyKV == [k \in {} |-> EmptyDoc]

InitialStores == {EmptyKV, RunCalls(EmptyKV, EarlierSession)}

NoCall == [name |-> "none"]
NoRet == [data |-> Null, error |-> Null]

ConcIdle ==
    /\ pc = [p \in {} |-> "idle"]
    /\ req = [p \in {} |-> NoCall]
    /\ snap = [p \in {} |-> EmptyDoc]
    /\ base = EmptyKV

SdkIdle ==
    /\ sdk = [id |-> Undefined, user |-> Undefined, flags |-> EmptyMap]
    /\ net = <<>>

EvalIdle ==
    /\ jexlNow = Undefined
    /\ clock = 0
    /\ decided = NoCall
    /\ lastEval = NoCall
    /\ args = NoCall
    /\ out = <<>>

Init ==
    /\ kv \in InitialStores
    /\ ret = NoRet
    /\ call = NoCall
    /\ pre = kv
    /\ puts = <<>>
    /\ nops = 0
    /\ ConcIdle
    /\ SdkIdle
    /\ EvalIdle

\* The bookkeeping of a call c that resolved to r.
Resolve(c, r) ==
    /\ kv' = r.store
    /\ ret' = r.ret
    /\ puts' = r.puts
    /\ call' = c
    /\ pre' = kv
    /\ nops' = nops + 1
    /\ UNCHANGED <<concVars, evalVars, sdkVars>>

PutFlag(self, flag) ==
    /\ nops < MaxOps
    /\ Resolve([name |-> "putFlag", self |-> self, flag |-> flag],
               putFlag(kv, self, flag))

UpdateFlag(self, id, update) ==
    /\ nops < MaxOps
    /\ Resolve([name |-> "updateFlag", self |-> self, id |-> id,
                update |-> update],
               updateFlag(kv, self, id, update))

DeleteFlag(self, id) ==
    /\ nops < MaxOps
    /\ Resolve([name |-> "deleteFlag", self |-> self, id |-> id],
               deleteFlag(kv, self, id))

PutSegment(self, id, rule) ==
    /\ nops < MaxOps
    /\ Resolve([name |-> "putSegment", self |-> self, id |-> id,
                rule |-> rule],
               putSegment(kv, self, id, rule))

DeleteSegment(self, id) ==
    /\ nops < MaxOps
    /\ Resolve([name |-> "deleteSegment", self |-> self, id |-> id],
               deleteSegment(kv, self, id))

SyncEnv(self, input) ==
    /\ nops < MaxOps
    /\ Resolve([name |-> "syncEnv", self |-> self, input |-> input],
               syncEnv(kv, self, input))

SyncFlag(self, id, input) ==
    /\ nops < MaxOps
    /\ Resolve([name |-> "syncFlag", self |-> self, id |-> id,
                input |-> input],
               syncFlag(kv, self,
                        [id |-> id, sourceEnv |-> input.sourceEnv,
                         targetEnv |-> input.targetEnv,
                         overwrite |-> input.overwrite]))

StoreCall(self) ==
    \/ \E flag \in FlagInputs : PutFlag(self, flag)
    \/ \E id \in FlagIds, update \in UpdateInputs :
           UpdateFlag(self, id, update)
    \/ \E id \in FlagIds : DeleteFlag(self, id)
    \/ \E id \in SegIds, rule \in SegRules : PutSegment(self, id, rule)
    \/ \E id \in SegIds : DeleteSegment(self, id)
    \/ \E input \in SyncInputs(self) : SyncEnv(self, input)
    \/ \E id \in FlagIds, input \in SyncInputs(self) :
           SyncFlag(self, id, input)

\* One app, its environments.
Next == \E self \in {i \in Instances : i.app = <<"shop">>} : StoreCall(self)

Spec == Init /\ [][Next]_vars

\* Every AppKV instance of every app.
NextTenants == \E self \in Instances : StoreCall(self)

SpecTenants == Init /\ [][NextTenants]_vars

-----------------------------------------------------------------------------
(* Two mutations in flight on one tenant.  A private method suspends at    *)
(* each `await this.#getData(...)` and runs from the last read to its      *)
(* kv.put without suspending, so a call is: begin, one read per document   *)
(* it loads, then the checks, the change and the write.                    *)

Tasks == {1, 2}

\* Calls issued on (shop, prod); the syncs pull from another env into it.
ConcCalls ==
    {[name |-> "putFlag", self |-> ShopProd, flag |-> f] : f \in FlagInputs}
    \cup {[name |-> "updateFlag", self |-> ShopProd, id |-> i, update |-> u] :
             i \in FlagIds, u \in UpdateInputs}
    \cup {[name |-> "deleteFlag", self |-> ShopProd, id |-> i] : i \in FlagIds}
    \cup {[name |-> "putSegment", self |-> ShopProd, id |-> i, rule |-> r] :
             i \in SegIds, r \in SegRules}
    \cup {[name |-> "deleteSegment", self |-> ShopProd, id |-> i] :
             i \in SegIds}
    \cup {[name |-> "syncEnv", self |-> ShopProd, input |-> x] :
             x \in {y \in SyncInputs(ShopProd) :
                       y.sourceEnv # Undefined /\ y.targetEnv = ShopProd.env}}
    \cup {[name |-> "syncFlag", self |-> ShopProd, id |-> i, input |-> x] :
             i \in FlagIds,
             x \in {y \in SyncInputs(ShopProd) :
                       y.sourceEnv # Undefined /\ y.targetEnv = ShopProd.env}}

IsSync(c) == c.name \in {"syncEnv", "syncFlag"}

\* What a read of `key` adds to the documents a task holds.
Loaded(view, key) ==
    IF key \in DOMAIN kv THEN MapPut(view, key, kv[key]) ELSE view

InitConc ==
    /\ kv \in InitialStores
    /\ ret = NoRet
    /\ call = NoCall
    /\ pre = kv
    /\ puts = <<>>
    /\ nops = 0
    /\ pc = [p \in Tasks |-> "idle"]
    /\ req = [p \in Tasks |-> NoCall]
    /\ snap = [p \in Tasks |-> EmptyKV]
    /\ base = kv
    /\ EvalIdle
    /\ SdkIdle

\* The call is made and runs up to its first await.
Begin(p, c) ==
    /\ pc[p] = "idle"
    /\ req' = [req EXCEPT ![p] = c]
    /\ pc' = [pc EXCEPT ![p] = IF IsSync(c) THEN "getSource" ELSE "getData"]
    /\ UNCHANGED <<storeVars, snap, base, evalVars, sdkVars>>

\* #syncEnv / #syncFlag: `await this.#getData(input.sourceEnv ?? this.env)`.
GetSource(p) ==
    /\ pc[p] = "getSource"
    /\ snap' = [snap EXCEPT ![p] =
                   Loaded(@, cacheKeys_all(req[p].self,
                                           req[p].input.sourceEnv))]
    /\ pc' = [pc EXCEPT ![p] = "getData"]
    /\ UNCHANGED <<storeVars, req, base, evalVars, sdkVars>>

\* `await this.#getData()` of the document the call writes.
GetData(p) ==
    /\ pc[p] = "getData"
    /\ snap' = [snap EXCEPT ![p] =
                   Loaded(@, cacheKeys_all(req[p].self,
                                           IF IsSync(req[p])
                                           THEN Def(req[p].input.targetEnv)
                                           ELSE Undefined))]
    /\ pc' = [pc EXCEPT ![p] = "saveData"]
    /\ UNCHANGED <<storeVars, req, base, evalVars, sdkVars>>

\* The checks, the change and `await this.#saveData(data)`, on what was read.
SaveData(p) ==
    /\ pc[p] = "saveData"
    /\ LET r == Exec(snap[p], req[p])
       IN kv' = IF r.puts = <<>> THEN kv
                ELSE MapPut(kv, r.puts[1], r.store[r.puts[1]])
    /\ pc' = [pc EXCEPT ![p] = "done"]
    /\ UNCHANGED <<ret, call, pre, puts, nops, req, snap, base, evalVars,
                   sdkVars>>

NextConc ==
    \E p \in Tasks :
        \/ \E c \in ConcCalls : Begin(p, c)
        \/ GetSource(p)
        \/ GetData(p)
        \/ SaveData(p)

SpecConc == InitConc /\ [][NextConc]_vars

-----------------------------------------------------------------------------
(* src/src/engine.ts (in routes/api.ts): hashing and bucketing.  A 32-bit  *)
(* word is the pair <<high 16 bits, low 16 bits>>; JavaScript's ^=, << and *)
(* >>> 0 work modulo 2^32 and the sum in between is exact in a double.     *)

\* str.charCodeAt(i) for every i, of the strings used as ids.
charCodes(str) ==
    CASE str = "u1" -> <<117, 49>>
      [] str = "u4" -> <<117, 52>>
      [] str = "f1" -> <<102, 49>>
      [] str = "f2" -> <<102, 50>>
      [] str = "undefined" -> <<117, 110, 100, 101, 102, 105, 110, 101, 100>>
      [] str = "user-123" -> <<117, 115, 101, 114, 45, 49, 50, 51>>
      [] str = "user-456" -> <<117, 115, 101, 114, 45, 52, 53, 54>>
      [] str = "new-dashboard" ->
             <<110, 101, 119, 45, 100, 97, 115, 104, 98, 111, 97, 114, 100>>
      [] str = "jos\\u00e9" -> <<106, 111, 115, 233>>

RECURSIVE Xor16(_, _)
Xor16(a, b) ==
    IF a = 0 THEN b
    ELSE IF b = 0 THEN a
    ELSE ((a + b) % 2) + 2 * Xor16(a \div 2, b \div 2)

RECURSIVE Pow2(_)
Pow2(k) == IF k = 0 THEN 1 ELSE 2 * Pow2(k - 1)

\* hval << k
Shl(w, k) ==
    IF k >= 16 THEN <<(w[2] * Pow2(k - 16)) % 65536, 0>>
    ELSE <<(w[1] * Pow2(k) + (w[2] * Pow2(k)) \div 65536) % 65536,
           (w[2] * Pow2(k)) % 65536>>

Add32(v, w) ==
    <<(v[1] + w[1] + (v[2] + w[2]) \div 65536) % 65536,
      (v[2] + w[2]) % 65536>>

\* hval = 0x811c9dc5
FnvOffsetBasis == <<33052, 40389>>

RECURSIVE FnvFold(_, _, _)
FnvFold(hval, codes, i) ==
    IF i > Len(codes) THEN hval
    ELSE LET x == <<hval[1], Xor16(hval[2], codes[i])>>
         IN FnvFold(Add32(x, Add32(Shl(x, 1), Add32(Shl(x, 4),
                    Add32(Shl(x, 7), Add32(Shl(x, 8), Shl(x, 24)))))),
                    codes, i + 1)

hashFnv32a(codes) == FnvFold(FnvOffsetBasis, codes, 1)

\* (hash % 100) + 1, with 65536 % 100 = 36
userPercentageHash(userId, flagKey) ==
    LET hash == hashFnv32a(charCodes(userId) \o <<58>> \o charCodes(flagKey))
    IN (((hash[1] % 100) * 36 + hash[2]) % 100) + 1

\* userPercentageHash tabulated over the ids in use.
IdStrings == {"u1", "u4", "undefined"}
Buckets ==
    [userId \in IdStrings |->
        [flagKey \in FlagIds |-> userPercentageHash(userId, flagKey)]]

\* The walk with `bucket < cumulative`.
RECURSIVE chooseFrom_Strict(_, _, _, _)
chooseFrom_Strict(variants, i, cumulative, bucket) ==
    IF i > Len(variants) THEN Null
    ELSE IF bucket < cumulative + variants[i].weight
    THEN Def(variants[i].id)
    ELSE chooseFrom_Strict(variants, i + 1,
                           cumulative + variants[i].weight, bucket)

\* for (const v of variants) { cumulative += v.weight; ... }
RECURSIVE chooseFrom(_, _, _, _)
chooseFrom(variants, i, cumulative, bucket) ==
    IF i > Len(variants) THEN Null
    ELSE IF bucket <= cumulative + variants[i].weight THEN Def(variants[i].id)
    ELSE chooseFrom(variants, i + 1, cumulative + variants[i].weight, bucket)

\* The walk started from the last variation.
chooseVariant_Reversed(userId, flagKey, variants) ==
    chooseFrom([i \in 1..Len(variants) |-> variants[Len(variants) + 1 - i]],
               1, 0, Buckets[userId][flagKey])

chooseVariant(userId, flagKey, variants) ==
    chooseFrom(variants, 1, 0, Buckets[userId][flagKey])

\* The comparison `bucket < percentage`.
isUserInRollout_Strict(userId, flagKey, percentage) ==
    IF percentage = 100 THEN TRUE
    ELSE Buckets[userId][flagKey] < percentage

isUserInRollout(userId, flagKey, percentage) ==
    IF percentage = 100 THEN TRUE
    ELSE Buckets[userId][flagKey] <= percentage

-----------------------------------------------------------------------------
(* The expressions.  jexl itself is a dependency; an expression is given   *)
(* by its text and evaluated as jexl evaluates that text.  A value is      *)
(* [threw, value]: whether evalSync threw, else the truthiness of what it  *)
(* returned.  `jexl` is what is registered under "now": Undefined for the  *)
(* module-level () => Date.now(), Def(t) for a decision's () => now.       *)

NaN == {}

\* new Date(val).getTime()
DateGetTime(val) ==
    CASE val = "1970-01-01T00:00:00.001Z" -> Def(1)
      [] val = "1970-01-01T00:00:00.002Z" -> Def(2)
      [] OTHER -> NaN

Returned(v) == [threw |-> FALSE, value |-> v]
Threw == [threw |-> TRUE, value |-> FALSE]

\* now() reading the wall clock whatever is registered.
callNow_Wall(jexl, wall) == wall

\* Calling the function registered under "now".
callNow(jexl, wall) == IF jexl = Undefined THEN wall ELSE The(jexl)

Expressions ==
    {"user.beta == true", "user.premium == true",
     "now() >= ts('1970-01-01T00:00:00.002Z')", "user.beta =="}

evalSync(expression, context, jexl, wall) ==
    CASE expression = Undefined -> Threw
      [] expression = Def("user.beta == true") ->
             Returned(context.user.beta)
      [] expression = Def("user.premium == true") ->
             Returned(context.user.premium)
      [] expression = Def("now() >= ts('1970-01-01T00:00:00.002Z')") ->
             Returned(callNow(jexl, wall) >=
                      The(DateGetTime("1970-01-01T00:00:00.002Z")))
      [] expression = Def("user.beta ==") -> Threw

-----------------------------------------------------------------------------
(* The decision procedure.                                                 *)

\* JSON values a result can hold.
JBool(b) == [kind |-> "boolean", b |-> {b}, s |-> {}]
JStr(str) == [kind |-> "string", b |-> {}, s |-> {str}]
JNull == [kind |-> "null", b |-> {}, s |-> {}]
JUndefined == [kind |-> "undefined", b |-> {}, s |-> {}]

FlagResult(type, result, isEval) ==
    [threw |-> FALSE, type |-> type, result |-> result, isEval |-> isEval]
TypeError ==
    [threw |-> TRUE, type |-> "none", result |-> JUndefined, isEval |-> FALSE]

\* `${userId}`
TemplateString(userId) ==
    IF userId = Undefined THEN "undefined" ELSE The(userId)

\* segments[key]
Lookup(segments, key) ==
    IF key \in DOMAIN segments THEN Def(segments[key]) ELSE Undefined

\* The keys of flagSegments, in the order Object.values lists them.
flagSegmentKeys(flag) ==
    LET F[i \in 0..Len(flag.segments)] ==
            IF i = 0 THEN <<>>
            ELSE IF flag.segments[i] \in Range(F[i - 1]) THEN F[i - 1]
            ELSE Append(F[i - 1], flag.segments[i])
    IN F[Len(flag.segments)]

\* record[key], of a record some of whose values may be undefined.
Value(record, key) ==
    IF key \in DOMAIN record THEN record[key] ELSE Undefined

\* A Record<string, string> all of whose values are strings.
Entries(segments) == [key \in DOMAIN segments |-> Def(segments[key])]

\* flag.segments.reduce((acc, k) => { acc[k] = segments[k]; return acc }, {})
flagSegments(flag, segments) ==
    [key \in Range(flag.segments) |-> Lookup(segments, key)]

\* The comparison turned round: a step applies until its start.
notStarted_Reversed(now, startTime) ==
    startTime # NaN /\ now > The(startTime)

\* now < startTime, which is false when startTime is NaN
notStarted(now, startTime) == startTime # NaN /\ now < The(startTime)

\* One of the two conditions is enough.
bothPassed_Either(stepSegmentPassed, stepPercentagePassed) ==
    stepSegmentPassed \/ stepPercentagePassed

\* stepSegmentPassed && stepPercentagePassed
bothPassed(stepSegmentPassed, stepPercentagePassed) ==
    stepSegmentPassed /\ stepPercentagePassed

evaluateRolloutStep(step, flag, segments, input, now, jexl, wall) ==
    LET startTime == DateGetTime(step.start)
        rule == IF step.segment \in {Undefined, Def("")} THEN Undefined
                ELSE Value(segments, The(step.segment))
        stepSegmentPassed ==
            IF step.segment \in {Undefined, Def("")} THEN Returned(TRUE)
            ELSE IF rule \in {Undefined, Def("")} THEN Returned(FALSE)
            ELSE evalSync(rule, input, jexl, wall)
        stepPercentagePassed ==
            IF step.percentage # Undefined
            THEN isUserInRollout(TemplateString(input.id), flag.id,
                                 The(step.percentage))
            ELSE TRUE
    IN IF notStarted(now, startTime) THEN Returned(FALSE)
       ELSE IF stepSegmentPassed.threw THEN Threw
       ELSE Returned(bothPassed(stepSegmentPassed.value,
                                stepPercentagePassed))

\* What the walk over the steps gives, and how many steps it evaluated.
Walked(r, n) == [threw |-> r.threw, value |-> r.value, evaluated |-> n]

\* The walk that evaluates every step and ORs the results.
RECURSIVE stepsFrom_All(_, _, _, _, _, _, _)
stepsFrom_All(i, flag, segments, input, now, jexl, wall) ==
    IF i > Len(flag.rollouts)
    THEN Walked(Returned(FALSE), Len(flag.rollouts))
    ELSE LET r == evaluateRolloutStep(flag.rollouts[i], flag, segments,
                                      input, now, jexl, wall)
             rest == stepsFrom_All(i + 1, flag, segments, input, now, jexl,
                                   wall)
         IN IF r.threw THEN Walked(r, i)
            ELSE IF rest.threw THEN rest
            ELSE Walked(Returned(r.value \/ rest.value), Len(flag.rollouts))

\* for (const step of rollouts) { if (evaluateRolloutStep(...)) return true }
RECURSIVE stepsFrom(_, _, _, _, _, _, _)
stepsFrom(i, flag, segments, input, now, jexl, wall) ==
    IF i > Len(flag.rollouts)
    THEN Walked(Returned(FALSE), Len(flag.rollouts))
    ELSE LET r == evaluateRolloutStep(flag.rollouts[i], flag, segments,
                                      input, now, jexl, wall)
         IN IF r.threw \/ r.value THEN Walked(r, i)
            ELSE stepsFrom(i + 1, flag, segments, input, now, jexl, wall)

evaluateRolloutSteps(flag, segments, input, now, jexl, wall) ==
    stepsFrom(1, flag, segments, input, now, jexl, wall)

getDefaultFlag(flag) ==
    CASE flag.type = "boolean" -> FlagResult("boolean", JBool(FALSE), FALSE)
      [] flag.type = "payload" -> FlagResult("payload", JNull, FALSE)
      [] flag.type = "variant" ->
             IF flag.variations = Undefined THEN TypeError
             ELSE IF Len(The(flag.variations)) = 0
             THEN FlagResult("variant", JUndefined, FALSE)
             ELSE LET first == The(flag.variations)[1]
                  IN FlagResult("variant",
                                JStr(WithDefault(first.payload, first.id)),
                                FALSE)
      [] OTHER -> FlagResult("boolean", JBool(FALSE), FALSE)

\* The rules OR-combined: one truthy rule is enough.
RECURSIVE everyRule_Some(_, _, _, _, _)
everyRule_Some(i, flag, input, jexl, wall) ==
    IF i > Len(flag.rules) THEN Returned(Len(flag.rules) = 0)
    ELSE LET r == evalSync(Def(flag.rules[i]), input, jexl, wall)
         IN IF r.threw \/ r.value THEN r
            ELSE everyRule_Some(i + 1, flag, input, jexl, wall)

\* flag.rules.every((rule) => jexl.evalSync(rule, input))
RECURSIVE everyRule(_, _, _, _, _)
everyRule(i, flag, input, jexl, wall) ==
    IF i > Len(flag.rules) THEN Returned(TRUE)
    ELSE LET r == evalSync(Def(flag.rules[i]), input, jexl, wall)
         IN IF r.threw \/ ~r.value THEN r
            ELSE everyRule(i + 1, flag, input, jexl, wall)

\* The segments AND-combined: every segment must be truthy.
RECURSIVE someSegment_Every(_, _, _, _, _, _)
someSegment_Every(i, keys, segments, input, jexl, wall) ==
    IF i > Len(keys) THEN Returned(TRUE)
    ELSE LET r == evalSync(Lookup(segments, keys[i]), input, jexl, wall)
         IN IF r.threw \/ ~r.value THEN r
            ELSE someSegment_Every(i + 1, keys, segments, input, jexl, wall)

\* Object.values(flagSegments).some((rule) => jexl.evalSync(rule, input))
RECURSIVE someSegment(_, _, _, _, _, _)
someSegment(i, keys, segments, input, jexl, wall) ==
    IF i > Len(keys) THEN Returned(FALSE)
    ELSE LET r == evalSync(Lookup(segments, keys[i]), input, jexl, wall)
         IN IF r.threw \/ r.value THEN r
            ELSE someSegment(i + 1, keys, segments, input, jexl, wall)

\* The result of a fired variant flag taken from its first variation.
firedResult_First(flag, input) ==
    IF flag.type = "variant" /\ flag.variations # Undefined
    THEN LET first == The(flag.variations)[1]
         IN FlagResult("variant", JStr(WithDefault(first.payload, first.id)),
                       TRUE)
    ELSE FlagResult(flag.type, JBool(TRUE), TRUE)

\* The typed result of a flag that fired.
firedResult(flag, input) ==
    CASE flag.type = "boolean" -> FlagResult("boolean", JBool(TRUE), TRUE)
      [] flag.type = "payload" ->
             FlagResult("payload",
                        IF flag.payload = Undefined THEN JNull
                        ELSE JStr(The(flag.payload)), TRUE)
      [] flag.type = "variant" ->
             IF flag.variations = Undefined THEN TypeError
             ELSE LET variantId == chooseVariant(TemplateString(input.id),
                                                 flag.id, The(flag.variations))
                      found == {i \in DOMAIN The(flag.variations) :
                                   Def(The(flag.variations)[i].id) = variantId}
                  IN IF found = {} THEN TypeError
                     ELSE LET variant ==
                                  The(flag.variations)[
                                      CHOOSE i \in found :
                                          \A j \in found : i <= j]
                          IN FlagResult("variant",
                                        JStr(WithDefault(variant.payload,
                                                         variant.id)),
                                        TRUE)

\* The registration left out: what was registered stays.
addFunction_now_Skipped(jexl, now) == jexl

\* jexl.addFunction("now", () => now)
addFunction_now(jexl, now) == Def(now)

\* The gate without the flag's switch.
flagEnabled_Always(flag) == TRUE

\* flag.enabled
flagEnabled(flag) == flag.enabled

\* The base percentage consulted next to the steps.
rolloutSelection_Base(flag, segments, input, now, jexl, wall) ==
    LET base_ == isUserInRollout(TemplateString(input.id), flag.id,
                                 flag.rollout)
        steps == evaluateRolloutSteps(flag, flagSegments(flag, segments),
                                      input, now, jexl, wall)
    IN IF Len(flag.rollouts) = 0 THEN Returned(base_)
       ELSE IF steps.threw THEN steps
       ELSE Returned(steps.value /\ base_)

\* if (hasRolloutes) { evaluateRolloutSteps } else { isUserInRollout }
rolloutSelection(flag, segments, input, now, jexl, wall) ==
    IF Len(flag.rollouts) > 0
    THEN evaluateRolloutSteps(flag, flagSegments(flag, segments), input, now,
                              jexl, wall)
    ELSE Returned(isUserInRollout(TemplateString(input.id), flag.id,
                                  flag.rollout))

\* The part of evaluateFlag after the registration of `now`.
decide(flag, segments, input, now, jexl, wall) ==
    LET rulesPassed == everyRule(1, flag, input, jexl, wall)
        keys == flagSegmentKeys(flag)
        hasSegments == Len(keys) > 0
        hasRolloutes == Len(flag.rollouts) > 0
        segmentsPassed ==
            IF ~hasRolloutes /\ hasSegments
            THEN someSegment(1, keys, segments, input, jexl, wall)
            ELSE Returned(TRUE)
        included ==
            rolloutSelection(flag, segments, input, now, jexl, wall)
    IN IF ~flagEnabled(flag) THEN getDefaultFlag(flag)
       ELSE IF rulesPassed.threw THEN TypeError
       ELSE IF ~rulesPassed.value THEN getDefaultFlag(flag)
       ELSE IF segmentsPassed.threw THEN TypeError
       ELSE IF ~segmentsPassed.value THEN getDefaultFlag(flag)
       ELSE IF included.threw THEN TypeError
       ELSE IF ~included.value THEN getDefaultFlag(flag)
       ELSE firedResult(flag, input)

\* evaluateFlag(options) run when the wall clock reads `wall` and `jexl` is
\* registered: what it returns and what it leaves registered.
evaluateFlag(options, jexl, wall) ==
    LET now == WithDefault(options.now, wall)
        registered == addFunction_now(jexl, now)
    IN [jexl |-> registered,
        now |-> now,
        out |-> decide(options.flag, options.segments, options.input, now,
                       registered, wall)]

-----------------------------------------------------------------------------
(* Decisions taken one after the other in one process.                     *)

MaxClock == 2

NowRule == "now() >= ts('1970-01-01T00:00:00.002Z')"

EvalBody(id, type, enabled, rules, segments, rollout, rollouts) ==
    [ id |-> id, type |-> type, enabled |-> Def(enabled),
      rules |-> Def(rules), segments |-> Def(segments),
      rollout |-> Def(rollout), rollouts |-> Def(rollouts),
      payload |-> IF type = "payload" THEN Def("p1") ELSE Undefined,
      variations |-> IF type = "variant" THEN Def(TwoVariations)
                     ELSE Undefined ]

EvalBodies ==
    { EvalBody("f1", "boolean", TRUE, <<NowRule>>, <<>>, 100, <<>>),
      EvalBody("f1", "boolean", FALSE, <<NowRule>>, <<>>, 100, <<>>),
      EvalBody("f1", "boolean", TRUE, <<"user.beta ==">>, <<>>, 100, <<>>),
      EvalBody("f1", "boolean", TRUE, <<>>, <<"a">>, 50, <<>>),
      EvalBody("f2", "payload", TRUE, <<>>, <<"b">>, 100,
               << [start |-> "1970-01-01T00:00:00.001Z",
                   segment |-> Def("b"), percentage |-> Undefined],
                  [start |-> "1970-01-01T00:00:00.002Z",
                   segment |-> Undefined, percentage |-> Def(90)] >>),
      EvalBody("f2", "variant", TRUE, <<>>, <<>>, 100, <<>>) }

\* The flags a tenant document can hold: bodies the schema accepted.
EvalFlags ==
    {inputFeatureFlagSchema(b).data :
        b \in {x \in EvalBodies : inputFeatureFlagSchema(x).success}}

EvalSegments ==
    { MapPut(MapPut(EmptyMap, "a", "user.beta == true"), "b", NowRule) }

EvalInputs ==
    { [id |-> Def("u1"), user |-> [beta |-> TRUE, premium |-> FALSE]],
      [id |-> Def("u4"), user |-> [beta |-> FALSE, premium |-> TRUE]] }

EvalOptions ==
    [flag : EvalFlags, segments : EvalSegments, input : EvalInputs,
     now : {Undefined} \cup {Def(t) : t \in 0..MaxClock}]

InitEval ==
    /\ kv = EmptyKV
    /\ ret = NoRet
    /\ call = NoCall
    /\ pre = kv
    /\ puts = <<>>
    /\ nops = 0
    /\ ConcIdle
    /\ SdkIdle
    /\ EvalIdle

\* The arguments of a decision, `now` being the reading the call fixed.
SameArguments(d, e) ==
    /\ d.flag = e.flag
    /\ d.segments = e.segments
    /\ d.input = e.input
    /\ d.now = e.now

Evaluate(options) ==
    LET r == evaluateFlag(options, jexlNow, clock)
        d == [name |-> "evaluateFlag", flag |-> options.flag,
              segments |-> options.segments, input |-> options.input,
              given |-> options.now, now |-> r.now, result |-> r.out,
              others |-> /\ decided # NoCall
                         /\ \/ lastEval.others
                            \/ r.now # decided.now]
    IN /\ jexlNow' = r.jexl
       /\ lastEval' = d
       /\ decided' = IF decided = NoCall THEN d ELSE decided
       /\ UNCHANGED <<storeVars, concVars, clock, args, out, sdkVars>>

\* Date.now() moves on.
Tick ==
    /\ clock < MaxClock
    /\ clock' = clock + 1
    /\ UNCHANGED <<storeVars, concVars, jexlNow, decided, lastEval, args, out,
                   sdkVars>>

NextEval ==
    \/ \E options \in EvalOptions : Evaluate(options)
    \/ Tick

SpecEval == InitEval /\ [][NextEval]_vars

-----------------------------------------------------------------------------
(* Single applications of the engine's functions: the arguments are drawn  *)
(* when the behaviour starts and the function is applied to them once.     *)

MaxRules == 2
MaxSegments == 2
MaxSteps == 2

\* The sequences over S of length at most n.
RECURSIVE SeqsUpTo(_, _)
SeqsUpTo(S, n) ==
    IF n = 0 THEN {<<>>}
    ELSE LET shorter == SeqsUpTo(S, n - 1)
         IN shorter \cup {Append(q, x) : q \in shorter, x \in S}

\* A variant flag whose weights leave buckets 11..100 without a variation.
ShortVariations ==
    << [id |-> "A", weight |-> 5, payload |-> Def("pA")],
       [id |-> "B", weight |-> 5, payload |-> Def("pB")] >>

FnShapes ==
    { [type |-> "boolean", payload |-> Undefined, variations |-> Undefined],
      [type |-> "payload", payload |-> Def("p1"), variations |-> Undefined],
      [type |-> "variant", payload |-> Undefined,
       variations |-> Def(TwoVariations)],
      [type |-> "variant", payload |-> Undefined,
       variations |-> Def(ShortVariations)] }

FnRuleLists ==
    SeqsUpTo({"user.beta == true", NowRule, "user.beta =="}, MaxRules)

\* The tenant's segments; "c" holds an expression that does not parse.
FnSegments ==
    MapPut(MapPut(MapPut(EmptyMap, "a", "user.beta == true"),
                  "b", "user.premium == true"),
           "c", "user.beta ==")

FnSegmentLists == SeqsUpTo(DOMAIN FnSegments, MaxSegments)

FnSteps ==
    [start : {"1970-01-01T00:00:00.001Z", "1970-01-01T00:00:00.002Z"},
     segment : {Def("a")}, percentage : {Undefined}]
    \cup [start : {"1970-01-01T00:00:00.001Z", "1970-01-01T00:00:00.002Z"},
          segment : {Def("c")}, percentage : {Undefined}]
    \cup [start : {"1970-01-01T00:00:00.001Z", "1970-01-01T00:00:00.002Z"},
          segment : {Undefined}, percentage : {Def(50)}]

FnStepLists == SeqsUpTo(FnSteps, MaxSteps) \ {<<>>}

FnInputs ==
    { [id |-> Def("u1"), user |-> [beta |-> TRUE, premium |-> FALSE]],
      [id |-> Def("u4"), user |-> [beta |-> FALSE, premium |-> TRUE]],
      [id |-> Undefined, user |-> [beta |-> FALSE, premium |-> FALSE]] }

FnBody(id, shape, enabled, rules, segments, rollout, rollouts) ==
    [ id |-> id, type |-> shape.type, enabled |-> Def(enabled),
      rules |-> Def(rules), segments |-> Def(segments),
      rollout |-> Def(rollout), rollouts |-> Def(rollouts),
      payload |-> shape.payload, variations |-> shape.variations ]

\* What the schema stores for a body it accepts.
Stored(bodies) ==
    {inputFeatureFlagSchema(b).data :
        b \in {x \in bodies : inputFeatureFlagSchema(x).success}}

\* Flags without rollout steps.
FnPlainFlags ==
    Stored({FnBody(id, shape, enabled, rules, segments, rollout, <<>>) :
               id \in FlagIds, shape \in FnShapes, enabled \in BOOLEAN,
               rules \in FnRuleLists, segments \in FnSegmentLists,
               rollout \in {0, 50, 100}})

\* Flags with rollout steps.
FnSteppedFlags ==
    Stored({FnBody("f1", shape, enabled, rules, segments, rollout, rollouts) :
               shape \in {x \in FnShapes : x.variations # Def(ShortVariations)
                                           /\ x.type # "payload"},
               enabled \in BOOLEAN,
               rules \in {<<>>, <<"user.beta == true">>},
               segments \in {<<>>, <<"a">>, <<"a", "c">>},
               rollout \in {0, 50}, rollouts \in FnStepLists})

EvaluateFlagArgs ==
    [name : {"evaluateFlag"}, flag : FnPlainFlags, segments : {FnSegments},
     input : FnInputs, now : 0..MaxClock]

\* The same call for two flags that differ in `rollout` only.
EvaluateFlagTwiceArgs ==
    {a \in [name : {"evaluateFlag twice"}, flag : FnSteppedFlags,
            rollout2 : {50, 100}, segments : {FnSegments}, input : FnInputs,
            now : 0..MaxClock] : a.flag.rollout < a.rollout2}

\* evaluateRolloutSteps called on the steps of a flag.
EvaluateRolloutStepsArgs ==
    [name : {"evaluateRolloutSteps"},
     flag : {f \in FnSteppedFlags :
                f.enabled /\ f.rules = <<>> /\ f.type = "boolean"
                /\ f.rollout = 0},
     segments : {FnSegments}, input : FnInputs, now : 0..MaxClock]

MaxVariations == 3

\* The weights of variation lists of length 1..MaxVariations.
WeightLists == UNION {[1..n -> {7, 41, 50}] : n \in 1..MaxVariations}

NamedVariations(weights, names) ==
    [i \in 1..Len(weights) |-> [id |-> names[i], weight |-> weights[i]]]

\* chooseVariant called for one identity and flag on two variation lists.
ChooseVariantArgs ==
    {[name |-> "chooseVariant", userId |-> u, flagKey |-> f,
      variants |-> NamedVariations(w1, <<"A", "B", "C", "D">>),
      variants2 |-> NamedVariations(w2, names)] :
        u \in IdStrings, f \in FlagIds,
        w1 \in WeightLists, w2 \in WeightLists,
        names \in {<<"A", "B", "C", "D">>, <<"A", "C", "B", "D">>}}

\* isUserInRollout called for one identity and flag at two percentages.
IsUserInRolloutArgs ==
    [name : {"isUserInRollout"}, userId : IdStrings, flagKey : FlagIds,
     percentage : 0..100, percentage2 : 0..100]

\* userPercentageHash called on an identity and a flag key.  The identity
\* 'jos\u00e9' is written as its JavaScript literal: its last character is
\* U+00E9, one UTF-16 code unit and two UTF-8 bytes.
UserPercentageHashArgs ==
    [name : {"userPercentageHash"},
     userId : IdStrings \cup {"user-123", "user-456", "jos\\u00e9"},
     flagKey : FlagIds \cup {"new-dashboard"}]

StepStarts ==
    {"1970-01-01T00:00:00.001Z", "1970-01-01T00:00:00.002Z", "soon"}

\* evaluateRolloutStep called on one step: any start string, no segment, the
\* empty id, the id of a segment ("a", "c") or of none ("d"), and any
\* percentage or none.
EvaluateRolloutStepArgs ==
    [name : {"evaluateRolloutStep"},
     step : [start : StepStarts,
             segment : {Undefined, Def(""), Def("a"), Def("c"), Def("d")},
             percentage : {Undefined, Def(0), Def(50), Def(100)}],
     flagKey : {"f1"}, segments : {FnSegments}, input : FnInputs,
     now : 0..MaxClock]

\* Steps the schema accepts, on a segment or on a percentage.
TimedSteps ==
    {step \in [start : StepStarts,
               segment : {Undefined, Def("a"), Def("c"), Def("d")},
               percentage : {Undefined, Def(50)}] :
        rolloutStep(step) /\ ~(step.segment # Undefined
                               /\ step.percentage # Undefined)}

\* Flags with rollout steps, decided at a time and again at a later time.
EvaluateFlagLaterArgs ==
    {a \in [name : {"evaluateFlag later"},
            flag : Stored({FnBody("f1", shape, enabled, rules, segments, 0,
                                  rollouts) :
                              shape \in {x \in FnShapes : x.type = "boolean"},
                              enabled \in BOOLEAN,
                              rules \in {<<>>, <<"user.beta == true">>},
                              segments \in {<<>>, <<"a">>},
                              rollouts \in SeqsUpTo(TimedSteps, MaxSteps)
                                           \ {<<>>}}),
            segments : {FnSegments}, input : FnInputs,
            now : 0..MaxClock, now2 : 0..MaxClock] : a.now <= a.now2}

FnArgs ==
    EvaluateFlagArgs \cup EvaluateFlagTwiceArgs
    \cup EvaluateRolloutStepsArgs \cup ChooseVariantArgs
    \cup IsUserInRolloutArgs \cup UserPercentageHashArgs
    \cup EvaluateRolloutStepArgs \cup EvaluateFlagLaterArgs

InitFn ==
    /\ kv = EmptyKV
    /\ ret = NoRet
    /\ call = NoCall
    /\ pre = kv
    /\ puts = <<>>
    /\ nops = 0
    /\ ConcIdle
    /\ SdkIdle
    /\ jexlNow = Undefined
    /\ clock = 0
    /\ decided = NoCall
    /\ lastEval = NoCall
    /\ args \in FnArgs
    /\ out = <<>>

OptionsOf(a, flag) ==
    [flag |-> flag, segments |-> a.segments, input |-> a.input,
     now |-> Def(a.now)]

Decide ==
    /\ args.name = "evaluateFlag"
    /\ out = <<>>
    /\ LET r == evaluateFlag(OptionsOf(args, args.flag), jexlNow, clock)
       IN /\ out' = <<r.out>>
          /\ jexlNow' = r.jexl
    /\ UNCHANGED <<storeVars, concVars, clock, decided, lastEval, args,
                   sdkVars>>

DecideTwice ==
    /\ args.name = "evaluateFlag twice"
    /\ out = <<>>
    /\ LET first == evaluateFlag(OptionsOf(args, args.flag), jexlNow, clock)
           second == evaluateFlag(
                         OptionsOf(args, [args.flag EXCEPT
                                             !.rollout = args.rollout2]),
                         first.jexl, clock)
       IN /\ out' = <<first.out, second.out>>
          /\ jexlNow' = second.jexl
    /\ UNCHANGED <<storeVars, concVars, clock, decided, lastEval, args,
                   sdkVars>>

\* evaluateRolloutSteps({rollouts, segments: flagSegments, ...}) called on
\* its own: it registers nothing.
WalkSteps ==
    /\ args.name = "evaluateRolloutSteps"
    /\ out = <<>>
    /\ out' = <<evaluateRolloutSteps(args.flag,
                                     flagSegments(args.flag, args.segments),
                                     args.input, args.now, jexlNow, clock)>>
    /\ UNCHANGED <<storeVars, concVars, jexlNow, clock, decided, lastEval,
                   args, sdkVars>>

ChooseTwice ==
    /\ args.name = "chooseVariant"
    /\ out = <<>>
    /\ out' = <<chooseVariant(args.userId, args.flagKey, args.variants),
                chooseVariant(args.userId, args.flagKey, args.variants2)>>
    /\ UNCHANGED <<storeVars, concVars, jexlNow, clock, decided, lastEval,
                   args, sdkVars>>

RolloutTwice ==
    /\ args.name = "isUserInRollout"
    /\ out = <<>>
    /\ out' = <<isUserInRollout(args.userId, args.flagKey, args.percentage),
                isUserInRollout(args.userId, args.flagKey, args.percentage2)>>
    /\ UNCHANGED <<storeVars, concVars, jexlNow, clock, decided, lastEval,
                   args, sdkVars>>

Bucket ==
    /\ args.name = "userPercentageHash"
    /\ out = <<>>
    /\ out' = <<userPercentageHash(args.userId, args.flagKey)>>
    /\ UNCHANGED <<storeVars, concVars, jexlNow, clock, decided, lastEval,
                   args, sdkVars>>

\* evaluateRolloutStep({step, segments, userId, flagKey, input, now})
\* called on its own, with the tenant's segments.
StepOnce ==
    /\ args.name = "evaluateRolloutStep"
    /\ out = <<>>
    /\ out' = <<evaluateRolloutStep(args.step, [id |-> args.flagKey],
                                    Entries(args.segments), args.input,
                                    args.now, jexlNow, clock)>>
    /\ UNCHANGED <<storeVars, concVars, jexlNow, clock, decided, lastEval,
                   args, sdkVars>>

DecideLater ==
    /\ args.name = "evaluateFlag later"
    /\ out = <<>>
    /\ LET first == evaluateFlag(OptionsOf(args, args.flag), jexlNow, clock)
           second == evaluateFlag([OptionsOf(args, args.flag) EXCEPT
                                      !.now = Def(args.now2)],
                                  first.jexl, clock)
       IN /\ out' = <<first.out, second.out>>
          /\ jexlNow' = second.jexl
    /\ UNCHANGED <<storeVars, concVars, clock, decided, lastEval, args,
                   sdkVars>>

NextFn ==
    \/ StepOnce
    \/ DecideLater
    \/ Bucket
    \/ Decide
    \/ DecideTwice
    \/ WalkSteps
    \/ ChooseTwice
    \/ RolloutTwice

SpecFn == InitFn /\ [][NextFn]_vars

\* The decisions taken: each flag decided with the result it got.
Decisions ==
    IF out = <<>> THEN {}
    ELSE IF args.name = "evaluateFlag"
    THEN {[flag |-> args.flag, result |-> out[1]]}
    ELSE IF args.name = "evaluateFlag twice"
    THEN {[flag |-> args.flag, result |-> out[1]],
          [flag |-> [args.flag EXCEPT !.rollout = args.rollout2],
           result |-> out[2]]}
    ELSE {}

-----------------------------------------------------------------------------
(* The client (src/sdk/index.ts) and the batch route it calls.  A request  *)
(* is answered at any time after it started, in any order.                 *)

MaxRequests == 3

\* The flags of the tenant the client asks about.
SdkFlags ==
    LET boolean == [type |-> "boolean", payload |-> Undefined,
                    variations |-> Undefined]
        beta == FnBody("f1", boolean, TRUE, <<"user.beta == true">>, <<>>,
                       100, <<>>)
        half == FnBody("f2", boolean, TRUE, <<>>, <<>>, 50, <<>>)
    IN MapPut(MapPut(EmptyMap, "f1", inputFeatureFlagSchema(beta).data),
              "f2", inputFeatureFlagSchema(half).data)

\* What jexl reads from `user`: a property of an absent user is undefined.
contextUser(user) ==
    IF user = Undefined THEN [beta |-> FALSE, premium |-> FALSE]
    ELSE The(user)

\* POST /eval: flagResult[flagKey] = {type: flag.type, result} per flag.
evalRoute(body) ==
    [flagKey \in DOMAIN SdkFlags |->
        LET r == evaluateFlag([flag |-> SdkFlags[flagKey],
                               segments |-> EmptyMap,
                               input |-> [id |-> body.id,
                                          user |-> contextUser(body.user)],
                               now |-> Undefined], Undefined, 0).out
        IN [type |-> SdkFlags[flagKey].type, result |-> r.result]]

\* this.#getBackupId()
BackupId == "u4"

NoInput == [id |-> Undefined, user |-> Undefined]

\* The arguments identify is called with.
IdentifyInputs ==
    [id : {Def("u1")},
     user : {Def([beta |-> TRUE, premium |-> FALSE]),
             Def([beta |-> FALSE, premium |-> TRUE])}]

\* id: input?.id ?? this.id ?? this.#getBackupId(), user: input?.user ??
\* this.user
requestBody(self, input) ==
    [id |-> IF input.id # Undefined THEN input.id
            ELSE IF self.id # Undefined THEN self.id
            ELSE Def(BackupId),
     user |-> IF input.user # Undefined THEN input.user ELSE self.user]

\* fetchFlags(input) up to its await: the request leaves with its body.
request(by, self, input) ==
    Append(net, [by |-> by, body |-> requestBody(self, input),
                 state |-> "sent"])

\* new Flaggly({lazy}): unless lazy, the constructor calls fetchFlags().
InitSdk ==
    /\ kv = EmptyKV
    /\ ret = NoRet
    /\ call = NoCall
    /\ pre = kv
    /\ puts = <<>>
    /\ nops = 0
    /\ ConcIdle
    /\ EvalIdle
    /\ sdk = [id |-> Undefined, user |-> Undefined, flags |-> EmptyMap]
    /\ \E lazy \in BOOLEAN :
           net = IF lazy THEN <<>>
                 ELSE <<[by |-> "fetchFlags",
                         body |-> requestBody(sdk, NoInput),
                         state |-> "sent"]>>

FetchFlags ==
    /\ Len(net) < MaxRequests
    /\ net' = request("fetchFlags", sdk, NoInput)
    /\ UNCHANGED <<storeVars, concVars, evalVars, sdk>>

Identify(input) ==
    /\ Len(net) < MaxRequests
    /\ sdk' = [sdk EXCEPT !.id = input.id, !.user = input.user]
    /\ net' = request("identify", sdk', input)
    /\ UNCHANGED <<storeVars, concVars, evalVars>>

\* The response of request i arrives: if (result) this.#flags.set(result).
Respond(i) ==
    /\ i \in DOMAIN net
    /\ net[i].state = "sent"
    /\ sdk' = [sdk EXCEPT !.flags = evalRoute(net[i].body)]
    /\ net' = [net EXCEPT ![i].state = "resolved"]
    /\ UNCHANGED <<storeVars, concVars, evalVars>>

\* Request i fails (!response.ok, or the fetch itself): the call rejects.
Reject(i) ==
    /\ i \in DOMAIN net
    /\ net[i].state = "sent"
    /\ net' = [net EXCEPT ![i].state = "rejected"]
    /\ UNCHANGED <<storeVars, concVars, evalVars, sdk>>

NextSdk ==
    \/ FetchFlags
    \/ \E input \in IdentifyInputs : Identify(input)
    \/ \E i \in 1..MaxRequests : Respond(i)
    \/ \E i \in 1..MaxRequests : Reject(i)

SpecSdk == InitSdk /\ [][NextSdk]_vars

-----------------------------------------------------------------------------
(* Vocabulary of the store claims.                                         *)

\* The document of tenant (app, env) in a namespace, as getData() reports it.
TenantDoc(store, app, env) ==
    LET key == <<"v1", ":">> \o app \o <<":">> \o env
    IN IF key \in DOMAIN store THEN store[key] ELSE EmptyDoc

CallDocBefore == TenantDoc(pre, call.self.app, call.self.env)
CallDocAfter == TenantDoc(kv, call.self.app, call.self.env)

SyncSourceEnv == WithDefault(call.input.sourceEnv, call.self.env)
SyncSourceBefore == TenantDoc(pre, call.self.app, SyncSourceEnv)
SyncTargetBefore == TenantDoc(pre, call.self.app, call.input.targetEnv)
SyncTargetAfter == TenantDoc(kv, call.self.app, call.input.targetEnv)

Failed(code) ==
    /\ ret = [data |-> Null, error |-> Def(code)]
    /\ kv = pre
    /\ puts = <<>>

Succeeded == ret.error = Null /\ ret.data # Null

RefsIn(doc) ==
    \A f \in DOMAIN doc.flags :
        \A i \in DOMAIN doc.flags[f].segments :
            doc.flags[f].segments[i] \in DOMAIN doc.segments

\* The segment ids a putFlag / updateFlag call names.
NamedSegments ==
    IF call.name = "putFlag" THEN call.flag.segments
    ELSE WithDefault(call.update.segments, <<>>)

NamesMissingSegment ==
    \E i \in DOMAIN NamedSegments :
        NamedSegments[i] \notin DOMAIN CallDocBefore.segments

\* C1: after any sequence of store calls made one at a time, every id in
\* the segments list of every stored flag is a key of the segments map of
\* the same tenant document.
C1_ReferenceIntegrity == \A k \in DOMAIN kv : RefsIn(kv[k])

\* A delete that cascaded into a flag which still references other segments.
C1_Witness ==
    /\ call.name = "deleteSegment"
    /\ Succeeded
    /\ \E f \in DOMAIN CallDocBefore.flags :
          /\ call.id \in Range(CallDocBefore.flags[f].segments)
          /\ CallDocAfter.flags[f].segments # <<>>

\* C2: when two mutations on the same tenant have both finished, however
\* their reads and writes interleaved, the tenant document is the one that
\* applying the two one after the other, in some order, produces.
C2_SerialOutcome ==
    (\A p \in Tasks : pc[p] = "done") =>
        TenantDoc(kv, ShopProd.app, ShopProd.env) \in
            {TenantDoc(RunCalls(base, <<req[1], req[2]>>),
                       ShopProd.app, ShopProd.env),
             TenantDoc(RunCalls(base, <<req[2], req[1]>>),
                       ShopProd.app, ShopProd.env)}

\* C10: a decision returns what the first decision of the process returned
\* for the same flag, segments, input and time reading, whatever was decided
\* in between (so any two decisions with equal arguments agree).
C10_PureDecision ==
    (decided # NoCall /\ SameArguments(lastEval, decided)) =>
        lastEval.result = decided.result

\* A flag whose rule reads now() is decided, then decisions at another time
\* reading, then the same flag again with the first arguments.
C10_Witness ==
    /\ decided # NoCall
    /\ SameArguments(lastEval, decided)
    /\ lastEval.others
    /\ lastEval.flag.enabled
    /\ lastEval.flag.rules = <<NowRule>>
    /\ lastEval.result.isEval

\* C3: putFlag with a flag, or updateFlag with a patch, whose segments list
\* names an id that is no key of the tenant's segments map resolves to
\* (null, INVALID_BODY) and writes nothing.
C3_MissingSegmentRejected ==
    (call.name \in {"putFlag", "updateFlag"} /\ NamesMissingSegment)
        => Failed("INVALID_BODY")

\* A flag with a missing segment put on a tenant that holds flags already.
C3_Witness ==
    /\ call.name = "putFlag"
    /\ NamesMissingSegment
    /\ DOMAIN CallDocBefore.flags # {}
    /\ ret.error = Def("INVALID_BODY")

\* C4: deleteSegment(s) on a tenant that has s makes one write; after it s
\* is no key of segments and occurs in no flag's segments list, every other
\* segment is as before, and every flag is as before except that its
\* segments list is the old one without s, in the old order.
C4_CascadeDelete ==
    (call.name = "deleteSegment" /\ call.id \in DOMAIN CallDocBefore.segments)
        =>
        LET s == call.id
            before == CallDocBefore
            after == CallDocAfter
        IN /\ Succeeded
           /\ puts = <<cacheKeys_all(call.self, Undefined)>>
           /\ ret.data = Def(after)
           /\ DOMAIN after.segments = DOMAIN before.segments \ {s}
           /\ \A k \in DOMAIN after.segments :
                  after.segments[k] = before.segments[k]
           /\ DOMAIN after.flags = DOMAIN before.flags
           /\ \A f \in DOMAIN after.flags :
                  /\ s \notin Range(after.flags[f].segments)
                  /\ after.flags[f] =
                         [before.flags[f] EXCEPT
                             !.segments = SelectSeq(@, LAMBDA x : x # s)]

\* A delete out of the middle of a three-segment list.
C4_Witness ==
    /\ call.name = "deleteSegment"
    /\ Succeeded
    /\ \E f \in DOMAIN CallDocBefore.flags :
          /\ Len(CallDocBefore.flags[f].segments) = 3
          /\ CallDocBefore.flags[f].segments[2] = call.id
          /\ Len(CallDocAfter.flags[f].segments) = 2

\* C5: after syncEnv(source, target, overwrite) every flag and segment of
\* the source is in the target under the same key, a copied flag has
\* enabled = false when overwrite is false and the source's enabled when it
\* is true, and what only the target had is retained unchanged.
C5_SyncEnv ==
    call.name = "syncEnv" =>
        LET src == SyncSourceBefore
            old == SyncTargetBefore
            new == SyncTargetAfter
        IN /\ Succeeded
           /\ \A f \in DOMAIN src.flags :
                  /\ f \in DOMAIN new.flags
                  /\ new.flags[f] =
                         [src.flags[f] EXCEPT
                             !.enabled = IF call.input.overwrite
                                         THEN @ ELSE FALSE]
           /\ \A g \in DOMAIN src.segments :
                  /\ g \in DOMAIN new.segments
                  /\ new.segments[g] = src.segments[g]
           /\ \A f \in DOMAIN old.flags \ DOMAIN src.flags :
                  /\ f \in DOMAIN new.flags
                  /\ new.flags[f] = old.flags[f]
           /\ \A g \in DOMAIN old.segments \ DOMAIN src.segments :
                  /\ g \in DOMAIN new.segments
                  /\ new.segments[g] = old.segments[g]

\* A safe sync of an enabled flag into a target that has keys of its own.
C5_Witness ==
    /\ call.name = "syncEnv"
    /\ ~call.input.overwrite
    /\ SyncSourceEnv # call.input.targetEnv
    /\ \E f \in DOMAIN SyncSourceBefore.flags :
           SyncSourceBefore.flags[f].enabled
    /\ DOMAIN SyncTargetBefore.flags \ DOMAIN SyncSourceBefore.flags # {}
    /\ DOMAIN SyncTargetBefore.segments \ DOMAIN SyncSourceBefore.segments # {}

\* C6: syncFlag(id, source, target, overwrite) with the flag in the source
\* changes in the target only flags[id] and the segments the flag lists:
\* the flag is copied (enabled false unless overwrite), the listed segments
\* are copied from the source, and every other flag and segment of the
\* target, present or absent, is as before.
C6_SyncFlag ==
    (call.name = "syncFlag" /\ call.id \in DOMAIN SyncSourceBefore.flags)
        =>
        LET src == SyncSourceBefore
            old == SyncTargetBefore
            new == SyncTargetAfter
            flag == src.flags[call.id]
            refs == Range(flag.segments)
        IN /\ Succeeded
           /\ DOMAIN new.flags = DOMAIN old.flags \cup {call.id}
           /\ new.flags[call.id] =
                  [flag EXCEPT !.enabled = IF call.input.overwrite
                                           THEN @ ELSE FALSE]
           /\ \A f \in DOMAIN old.flags \ {call.id} :
                  new.flags[f] = old.flags[f]
           /\ DOMAIN new.segments = DOMAIN old.segments \cup refs
           /\ \A g \in refs : new.segments[g] = src.segments[g]
           /\ \A g \in DOMAIN old.segments \ refs :
                  new.segments[g] = old.segments[g]

\* A flag that lists one of the source's segments, synced into a target
\* that lacks another source segment and has its own rule for a third.
C6_Witness ==
    /\ call.name = "syncFlag"
    /\ Succeeded
    /\ call.id \in DOMAIN SyncSourceBefore.flags
    /\ SyncSourceBefore.flags[call.id].segments # <<>>
    /\ \E g \in DOMAIN SyncSourceBefore.segments :
          /\ g \notin Range(SyncSourceBefore.flags[call.id].segments)
          /\ g \notin DOMAIN SyncTargetAfter.segments
    /\ \E g \in DOMAIN SyncSourceBefore.segments :
          /\ g \in DOMAIN SyncTargetAfter.segments
          /\ SyncTargetAfter.segments[g] # SyncSourceBefore.segments[g]

\* C7: every stored flag whose type is boolean carries neither a payload
\* nor variations (all puts and updates here are schema-valid).
C7_BooleanCarriesNothing ==
    \A k \in DOMAIN kv :
        \A f \in DOMAIN kv[k].flags :
            kv[k].flags[f].type = "boolean" =>
                /\ kv[k].flags[f].payload = Undefined
                /\ kv[k].flags[f].variations = Undefined

\* The targeted calls whose id is absent.
TargetAbsent ==
    \/ call.name \in {"updateFlag", "deleteFlag"}
           /\ call.id \notin DOMAIN CallDocBefore.flags
    \/ call.name = "deleteSegment"
           /\ call.id \notin DOMAIN CallDocBefore.segments
    \/ call.name = "syncFlag"
           /\ call.id \notin DOMAIN SyncSourceBefore.flags

\* C8 as stated: a targeted call on an absent id fails with NOT_FOUND,
\* whatever its other arguments, and writes nothing.
C8_AbsentIsNotFound == TargetAbsent => Failed("NOT_FOUND")

\* C8 amended: a targeted call on an absent id writes nothing and fails
\* with NOT_FOUND, except that updateFlag with a patch naming a missing
\* segment fails with INVALID_BODY.
C8_AbsentFails ==
    TargetAbsent =>
        IF call.name = "updateFlag" /\ NamesMissingSegment
        THEN Failed("INVALID_BODY")
        ELSE Failed("NOT_FOUND")

\* An update naming an existing segment, on a flag that is not there.
C8_Witness ==
    /\ call.name = "updateFlag"
    /\ call.id \notin DOMAIN CallDocBefore.flags
    /\ WithDefault(call.update.segments, <<>>) # <<>>
    /\ ~NamesMissingSegment
    /\ ret.error = Def("NOT_FOUND")

\* The tenant a call writes to.
WrittenEnv ==
    IF call.name \in {"syncEnv", "syncFlag"}
    THEN call.input.targetEnv ELSE call.self.env

\* C9: a call changes only the document of the tenant it is issued on (for
\* a sync, the target environment of the same app); the document of every
\* other tenant is as before.
C9_TenantIsolation ==
    call.name # "none" =>
        \A app \in Apps, env \in Envs :
            <<app, env>> # <<call.self.app, WrittenEnv>>
                => TenantDoc(kv, app, env) = TenantDoc(pre, app, env)

-----------------------------------------------------------------------------
(* Vocabulary of the decision claims.                                      *)

\* The default result of a flag, as the decision procedure documents it.
DefaultResult(flag) ==
    [threw |-> FALSE,
     type |-> flag.type,
     result |-> CASE flag.type = "boolean" -> JBool(FALSE)
                  [] flag.type = "payload" -> JNull
                  [] flag.type = "variant" ->
                         LET first == The(flag.variations)[1]
                         IN IF first.payload # Undefined
                            THEN JStr(The(first.payload))
                            ELSE JStr(first.id),
     isEval |-> FALSE]

\* The truthiness of an expression for the decided input and time, and
\* whether evaluating it fails.
DecidedValue(expression) ==
    evalSync(Def(expression), args.input, Def(args.now), clock)
Truthy(expression) ==
    ~DecidedValue(expression).threw /\ DecidedValue(expression).value
Falsy(expression) ==
    ~DecidedValue(expression).threw /\ ~DecidedValue(expression).value
Fails(expression) == DecidedValue(expression).threw

\* C11: a flag with enabled = false gets its type's default result with
\* isEval = false, whatever its rules, segments, rollout and rollout steps
\* and whatever the input and the time.
C11_DisabledDefault ==
    \A d \in Decisions :
        ~d.flag.enabled => d.result = DefaultResult(d.flag)

\* A disabled variant flag whose rules hold and whose rollout admits all.
C11_Witness ==
    \E d \in Decisions :
        /\ ~d.flag.enabled
        /\ d.flag.type = "variant"
        /\ d.flag.rules = <<"user.beta == true">>
        /\ Truthy("user.beta == true")
        /\ d.flag.rollout = 100
        /\ d.result.isEval = FALSE

SegmentRule(id) == args.segments[id]

\* The identity's bucket falls on one of the flag's variations.
CoversBucket(flag) ==
    flag.type = "variant" =>
        chooseVariant(TemplateString(args.input.id), flag.id,
                      The(flag.variations)) # Null

C14_StepsPrecedence ==
    (args.name = "evaluateFlag twice" /\ out # <<>>) =>
        /\ Len(args.flag.rollouts) > 0
        /\ args.flag.rollout # args.rollout2
        /\ out[1] = out[2]

\* A flag with rollout = 0 and its twin with rollout = 100 both fire through
\* a step, for an identity the base percentage 0 would have kept out.
C14_Witness ==
    /\ args.name = "evaluateFlag twice"
    /\ out # <<>>
    /\ args.flag.rollout = 0
    /\ args.rollout2 = 100
    /\ ~isUserInRollout(TemplateString(args.input.id), args.flag.id, 0)
    /\ out[1].isEval
    /\ out[2].isEval

\* Whether the i-th step of the walked flag passes, or fails to evaluate.
StepResult(i) ==
    evaluateRolloutStep(args.flag.rollouts[i], args.flag,
                        flagSegments(args.flag, args.segments),
                        args.input, args.now, jexlNow, clock)
StepPasses(i) == ~StepResult(i).threw /\ StepResult(i).value
StepThrows(i) == StepResult(i).threw

C16_FailureContained ==
    \A d \in Decisions :
        /\ ( /\ d.flag.enabled
             /\ \E i \in DOMAIN d.flag.rules : Fails(d.flag.rules[i]) )
           => d.result = DefaultResult(d.flag)
        /\ CoversBucket(d.flag) => ~d.result.threw

\* The decision of an enabled flag whose rules, segments and base percentage
\* all admit the input.
PassesAll(flag) ==
    /\ flag.enabled
    /\ \A i \in DOMAIN flag.rules : Truthy(flag.rules[i])
    /\ flag.rollouts = <<>>
    /\ flag.segments # <<>> => Truthy(SegmentRule(flag.segments[1]))
    /\ isUserInRollout(TemplateString(args.input.id), flag.id, flag.rollout)

\* C17: an enabled variant flag that passes rules, segments and rollout, for
\* an identity whose bucket lies above the sum of the weights, gets the
\* default result and no error is raised.
C17_UnderflowDefault ==
    \A d \in Decisions :
        ( /\ d.flag.type = "variant"
          /\ PassesAll(d.flag)
          /\ ~CoversBucket(d.flag) )
        => d.result = DefaultResult(d.flag)

\* The sum of the weights of the first i variations.
RECURSIVE CumulativeWeight(_, _)
CumulativeWeight(variants, i) ==
    IF i = 0 THEN 0 ELSE CumulativeWeight(variants, i - 1) + variants[i].weight

\* The positions whose cumulative weight reaches the bucket of the call.
Reaching(variants) ==
    {i \in DOMAIN variants :
        CumulativeWeight(variants, i) >= Buckets[args.userId][args.flagKey]}

\* The lowest such position (0 when there is none).
FirstReaching(variants) ==
    IF Reaching(variants) = {} THEN 0
    ELSE CHOOSE i \in Reaching(variants) : \A j \in Reaching(variants) : i <= j

\* C18: chooseVariant returns the id of the first variation, in declared
\* order, whose cumulative weight is at least the bucket of (identity,
\* flagKey), and null when the bucket exceeds the total weight.
C18_ChooseVariant ==
    (args.name = "chooseVariant" /\ out # <<>>) =>
        /\ out[1] = IF FirstReaching(args.variants) = 0 THEN Null
                    ELSE Def(args.variants[FirstReaching(args.variants)].id)
        /\ out[2] = IF FirstReaching(args.variants2) = 0 THEN Null
                    ELSE Def(args.variants2[FirstReaching(args.variants2)].id)

\* The second variation is chosen with its cumulative weight equal to the
\* bucket, and for the other list the bucket exceeds the total weight.
C18_Witness ==
    /\ args.name = "chooseVariant"
    /\ out # <<>>
    /\ FirstReaching(args.variants) = 2
    /\ CumulativeWeight(args.variants, 2) =
           Buckets[args.userId][args.flagKey]
    /\ out[1] = Def("B")
    /\ FirstReaching(args.variants2) = 0
    /\ out[2] = Null

\* C19: for one identity and flag id, a second variation list that agrees
\* with the first on the ids and weights of the variations up to and
\* including the one chosen for the first gets the same variation chosen,
\* whatever follows it.
C19_VariantStability ==
    (args.name = "chooseVariant" /\ out # <<>> /\ out[1] # Null) =>
        \A k \in DOMAIN args.variants :
            ( /\ Def(args.variants[k].id) = out[1]
              /\ k <= Len(args.variants2)
              /\ \A j \in 1..k : args.variants2[j] = args.variants[j] )
            => out[2] = out[1]

\* The first variation is chosen; the lists differ after it in weights,
\* names and length.
C19_Witness ==
    /\ args.name = "chooseVariant"
    /\ out # <<>>
    /\ out[1] = Def("A")
    /\ args.variants2[1] = args.variants[1]
    /\ Len(args.variants) = 2
    /\ Len(args.variants2) = 3
    /\ args.variants2[2] # args.variants[2]
    /\ out[2] = Def("A")

\* C20: isUserInRollout is true at pct = 100 and otherwise is bucket <= pct;
\* so pct = 0 admits nobody, and an identity admitted at pct is admitted at
\* every pct' >= pct.
C20_InRollout ==
    (args.name = "isUserInRollout" /\ out # <<>>) =>
        LET bucket == Buckets[args.userId][args.flagKey]
        IN /\ args.percentage = 100 => out[1]
           /\ args.percentage # 100 => (out[1] <=> bucket <= args.percentage)
           /\ args.percentage = 0 => ~out[1]
           /\ (out[1] /\ args.percentage2 >= args.percentage) => out[2]

\* An identity admitted at exactly its bucket, not admitted one below, and
\* the same identity asked again at a higher percentage.
C20_Witness ==
    /\ args.name = "isUserInRollout"
    /\ out # <<>>
    /\ args.percentage = Buckets[args.userId][args.flagKey]
    /\ out[1]
    /\ args.percentage2 = args.percentage + 1
    /\ out[2]

-----------------------------------------------------------------------------
(* Vocabulary of the bucket claim: FNV-1a as its reference defines it.     *)

\* The UTF-8 encoding of the strings used as ids.
Utf8Bytes(str) ==
    IF str = "jos\\u00e9" THEN <<106, 111, 115, 195, 169>> ELSE charCodes(str)

\* hash * 16777619 modulo 2^32, with 16777619 = 256 * 65536 + 403.
TimesFnvPrime(hash) ==
    <<(hash[1] * 403 + hash[2] * 256 + (hash[2] * 403) \div 65536) % 65536,
      (hash[2] * 403) % 65536>>

RECURSIVE Fnv1a32From(_, _, _)
Fnv1a32From(hash, bytes, i) ==
    IF i > Len(bytes) THEN hash
    ELSE Fnv1a32From(TimesFnvPrime(<<hash[1], Xor16(hash[2], bytes[i])>>),
                     bytes, i + 1)

Fnv1a32(bytes) == Fnv1a32From(FnvOffsetBasis, bytes, 1)

ReferenceBucket(identity, flagKey) ==
    LET hash == Fnv1a32(Utf8Bytes(identity) \o <<58>> \o Utf8Bytes(flagKey))
    IN (((hash[1] % 100) * 36 + hash[2]) % 100) + 1

\* C21: userPercentageHash(identity, flagKey) is (FNV-1a-32 of the UTF-8
\* bytes of identity + ":" + flagKey, modulo 100) + 1; it lies in 1..100,
\* and it is 95 for ("user-123", "new-dashboard") and 34 for ("user-456",
\* "new-dashboard").
C21_Fnv1aBucket ==
    (args.name = "userPercentageHash" /\ out # <<>>) =>
        /\ out[1] = ReferenceBucket(args.userId, args.flagKey)
        /\ out[1] \in 1..100
        /\ (args.userId = "user-123" /\ args.flagKey = "new-dashboard")
           => out[1] = 95
        /\ (args.userId = "user-456" /\ args.flagKey = "new-dashboard")
           => out[1] = 34

\* The same for identities and flag keys made of ASCII characters.
C21_AsciiBucket ==
    (args.name = "userPercentageHash" /\ out # <<>>
     /\ args.userId # "jos\\u00e9") =>
        /\ out[1] = ReferenceBucket(args.userId, args.flagKey)
        /\ out[1] \in 1..100
        /\ (args.userId = "user-123" /\ args.flagKey = "new-dashboard")
           => out[1] = 95
        /\ (args.userId = "user-456" /\ args.flagKey = "new-dashboard")
           => out[1] = 34

-----------------------------------------------------------------------------
(* Vocabulary of the time claim.                                           *)

\* The last decision was on a flag all of whose conditions read the time:
\* a rule now() >= 2ms, or a step started at 1ms on a segment now() >= 2ms
\* followed by a step started at 2ms that admits every identity in use.
TimedFlag ==
    /\ lastEval # NoCall
    /\ lastEval.flag.enabled
    /\ \/ lastEval.flag.rules = <<NowRule>>
       \/ /\ Len(lastEval.flag.rollouts) = 2
          /\ lastEval.flag.rollouts[1].segment = Def("b")
          /\ lastEval.segments["b"] = NowRule

\* C22: within one evaluateFlag call the time is fixed at entry.  The
\* reading is the `now` argument, or a reading of the clock taken during the
\* call when none was passed; now() in a rule or in a step's segment
\* expression returns that reading and the start comparison of each step uses
\* it, so a flag whose conditions all read the time fires exactly when the
\* reading has reached 2ms, wherever the clock stands.
C22_TimeFixedAtEntry ==
    lastEval # NoCall =>
        /\ lastEval.given # Undefined => lastEval.now = The(lastEval.given)
        /\ lastEval.given = Undefined => lastEval.now <= clock
        /\ jexlNow = Def(lastEval.now)
        /\ TimedFlag => (lastEval.result.isEval <=> lastEval.now >= 2)

\* A flag with steps decided with now = 1ms while the clock stands at 2ms:
\* its first step has started, and now() in that step's segment reads 1ms.
C22_Witness ==
    /\ TimedFlag
    /\ Len(lastEval.flag.rollouts) = 2
    /\ lastEval.given = Def(1)
    /\ clock = 2
    /\ ~lastEval.result.isEval
    /\ ~lastEval.result.threw

-----------------------------------------------------------------------------
(* Vocabulary of the result claim.                                         *)

\* The variation chosen for the decided identity: the first whose cumulative
\* weight reaches the identity's bucket for the flag (0 when none does).
ChosenVariation(flag) ==
    LET variants == The(flag.variations)
        reaching == {i \in DOMAIN variants :
                        CumulativeWeight(variants, i) >=
                        Buckets[TemplateString(args.input.id)][flag.id]}
    IN IF reaching = {} THEN 0
       ELSE CHOOSE i \in reaching : \A j \in reaching : i <= j

PayloadOrId(variation) ==
    IF variation.payload # Undefined THEN JStr(The(variation.payload))
    ELSE JStr(variation.id)

C23_WitnessDefault ==
    \E d \in Decisions :
        /\ d.flag.type = "variant"
        /\ d.flag.enabled
        /\ ~d.result.threw
        /\ ~d.result.isEval
        /\ d.result.result = JStr("A")

-----------------------------------------------------------------------------
(* Vocabulary of the client claim.                                         *)

\* The request started last is an identify call and it has resolved.
IdentifyResolvedLast ==
    /\ net # <<>>
    /\ net[Len(net)].by = "identify"
    /\ net[Len(net)].state = "resolved"

\* C24: once identify(id, user) has resolved and no fetch has been started
\* after it, the client's flag store holds the batch evaluated for that id
\* and user, whenever the responses of fetches started earlier arrive.
C24_IdentifyWins ==
    IdentifyResolvedLast => sdk.flags = evalRoute(net[Len(net)].body)

-----------------------------------------------------------------------------
(* Vocabulary of the rollout step claims.                                  *)

Stepped == args.name = "evaluateRolloutStep" /\ out # <<>>
Later == args.name = "evaluateFlag later" /\ out # <<>>

\* The start of the step parses as a time that t has reached.
Started(step, t) ==
    /\ DateGetTime(step.start) # NaN
    /\ t >= The(DateGetTime(step.start))

Passed(r) == ~r.threw /\ r.value

\* The step names a segment of the tenant whose expression fails.
NamesFailing(step) ==
    /\ step.segment # Undefined
    /\ The(step.segment) \in DOMAIN args.segments
    /\ Fails(args.segments[The(step.segment)])

\* The step names a segment of the tenant whose expression is truthy.
NamesTruthy(step) ==
    /\ step.segment # Undefined
    /\ The(step.segment) \in DOMAIN args.segments
    /\ Truthy(args.segments[The(step.segment)])

\* An enabled flag whose rules hold and whose only step, on a segment, has
\* started.
OneSegmentStep ==
    /\ Later
    /\ args.flag.enabled
    /\ \A i \in DOMAIN args.flag.rules : Truthy(args.flag.rules[i])
    /\ Len(args.flag.rollouts) = 1
    /\ args.flag.rollouts[1].segment # Undefined
    /\ Started(args.flag.rollouts[1], args.now)

\* C25: in evaluateFlag a step on segment s passes exactly when s is a key
\* of the tenant's segments map and its expression is truthy for the input,
\* whether or not the flag's own segments list names s; when s is no key of
\* the map the step fails and nothing is thrown (steps on a segment whose
\* expression fails to evaluate set aside).
C25_StepSegmentFromTenant ==
    (OneSegmentStep /\ ~NamesFailing(args.flag.rollouts[1])) =>
        /\ out[1].isEval <=> NamesTruthy(args.flag.rollouts[1])
        /\ ~NamesTruthy(args.flag.rollouts[1])
           => out[1] = DefaultResult(args.flag)

\* The same for steps on a segment the flag's own segments list names.
C25_StepSegmentListed ==
    ( /\ OneSegmentStep
      /\ ~NamesFailing(args.flag.rollouts[1])
      /\ The(args.flag.rollouts[1].segment) \in Range(args.flag.segments) )
    => /\ out[1].isEval <=> NamesTruthy(args.flag.rollouts[1])
       /\ ~NamesTruthy(args.flag.rollouts[1])
          => out[1] = DefaultResult(args.flag)

\* C26: a step passes only if its start parses and now has reached it: a
\* step whose start lies after now fails, and one whose start does not parse
\* fails for every now, whatever its segment and percentage.
C26_StartGate ==
    (Stepped /\ Passed(out[1])) => Started(args.step, args.now)

\* The same for steps whose start parses.
C26_ParsedStartGate ==
    (Stepped /\ Passed(out[1]) /\ DateGetTime(args.step.start) # NaN)
        => Started(args.step, args.now)

\* C27: a step that sets neither segment nor percentage fails:
\* evaluateRolloutStep returns false for it for every input and every now.
C27_EmptyStepFails ==
    ( /\ Stepped
      /\ args.step.segment = Undefined
      /\ args.step.percentage = Undefined )
    => out[1] = Returned(FALSE)

C28_WitnessPasses ==
    /\ Stepped
    /\ Started(args.step, args.now)
    /\ NamesTruthy(args.step)
    /\ args.step.percentage = Def(50)
    /\ out[1] = Returned(TRUE)

\* No step of the flag names a segment whose expression fails.
StepsEvaluate ==
    \A i \in DOMAIN args.flag.rollouts : ~NamesFailing(args.flag.rollouts[i])

-----------------------------------------------------------------------------
(* Vocabulary of the orphaned step claim.                                  *)

\* The steps of stored flags whose segment is no segment of their tenant.
OrphanedSteps ==
    {o \in [tenant : DOMAIN kv, flag : FlagIds, step : 1..MaxSteps] :
        /\ o.flag \in DOMAIN kv[o.tenant].flags
        /\ o.step \in DOMAIN kv[o.tenant].flags[o.flag].rollouts
        /\ LET step == kv[o.tenant].flags[o.flag].rollouts[o.step]
           IN /\ step.segment # Undefined
              /\ The(step.segment) \notin DOMAIN kv[o.tenant].segments}

\* What evaluateFlag gets from the step for an input and a time.
OrphanResult(o, input, now) ==
    LET flag == kv[o.tenant].flags[o.flag]
    IN evaluateRolloutStep(flag.rollouts[o.step], flag,
                           flagSegments(flag, kv[o.tenant].segments),
                           input, now, Def(now), now)

\* C30: deleteSegment(s) leaves the rollouts list of every flag as it was,
\* so a step on s stays in the stored flag; and a stored step on a segment
\* that is absent from its tenant's segments passes for no input at no time.
C30_OrphanedStepStays ==
    /\ (call.name = "deleteSegment" /\ Succeeded) =>
           \A f \in DOMAIN CallDocBefore.flags :
               /\ f \in DOMAIN CallDocAfter.flags
               /\ CallDocAfter.flags[f].rollouts =
                      CallDocBefore.flags[f].rollouts
    /\ \A o \in OrphanedSteps : \A input \in FnInputs : \A now \in 0..MaxClock :
           OrphanResult(o, input, now) = Returned(FALSE)

\* A segment is deleted that a stored step names, the segment's expression
\* having held for an input: the step is still stored and fails.
C30_Witness ==
    /\ call.name = "deleteSegment"
    /\ Succeeded
    /\ \E o \in OrphanedSteps :
           /\ kv[o.tenant].flags[o.flag].rollouts[o.step].segment
                  = Def(call.id)
           /\ call.id \in Range(CallDocBefore.flags[o.flag].segments)
           /\ \E input \in FnInputs :
                  /\ evalSync(Def(CallDocBefore.segments[call.id]), input,
                              Def(1), 1) = Returned(TRUE)
                  /\ OrphanResult(o, input, 1) = Returned(FALSE)

=============================================================================
